---- MODULE Spec2Model ----
(***************************************************************************)
(* Model of src/bot.py: the /stats slash command (player_stats), the       *)
(* upstream fetcher (FreeFireAPI.get_player_stats) and the response        *)
(* normalizer (FreeFireAPI.parse_player_data).                             *)
(*                                                                         *)
(* Conventions.                                                            *)
(*  - A Python/JSON value is a record [k, n, s, o]: k is the Python type   *)
(*    ("null", "bool", "int", "float", "str", "list", "obj"), n the        *)
(*    integer of an int, 1 or 0 for True or False, the number of           *)
(*    hundredths of a float, or the length of a list (a list of zeros), s  *)
(*    the text of a str ("-0" marks the float -0.0), o the mapping of a    *)
(*    dict. The floats of the upstream payload are multiples of 0.25,      *)
(*    which a double holds exactly; the other floats are the results of    *)
(*    round(.., 2), the doubles nearest to a number of hundredths.         *)
(*  - A Python dict returned by the code (the result / error dict, an      *)
(*    embed) is a TLA+ function on its keys, so `"error" in d` is          *)
(*    "error" \in DOMAIN d.                                                *)
(*  - An evaluation that may raise yields [raised, value, exc].            *)
(*  - Strings are ASCII: an emoji of the bot's texts is written as its     *)
(*    shortcode (":x:"), any other non-ASCII character by its code point   *)
(*    ("U+2022", and the UID characters "U+00B2" and "U+0663"), and a      *)
(*    backquote as an apostrophe.                                          *)
(***************************************************************************)
EXTENDS Integers, Sequences, FiniteSets, TLC

\* ------------------------------------------------------------------ bounds
\* Largest small integer a counter of the upstream payload takes.
MaxStat == 8
\* Longest UID typed by a user.
MaxUidLen == 7
\* Number of concurrent /stats invocations.
NInv == 2

\* ------------------------------------------------------- program constants
\* len(uid) < 6 is rejected.
MinUidLen == 6
\* response.status == 200 is the only success status.
HttpOk == 200

\* ------------------------------------------------------------ Python values
NoKeys == [x \in {} |-> x]
JNull == [k |-> "null", n |-> 0, s |-> "", o |-> NoKeys]
JBool(b) == [k |-> "bool", n |-> b, s |-> "", o |-> NoKeys]
JInt(i) == [k |-> "int", n |-> i, s |-> "", o |-> NoKeys]
JFloat(h) == [k |-> "float", n |-> h, s |-> "", o |-> NoKeys]
NegZero == [k |-> "float", n |-> 0, s |-> "-0", o |-> NoKeys]
JStr(t) == [k |-> "str", n |-> 0, s |-> t, o |-> NoKeys]
JList(len) == [k |-> "list", n |-> len, s |-> "", o |-> NoKeys]
JObj(f) == [k |-> "obj", n |-> 0, s |-> "", o |-> f]
EmptyObj == JObj(NoKeys)

Return(v) == [raised |-> FALSE, value |-> v, exc |-> ""]
Raise(e) == [raised |-> TRUE, value |-> JNull, exc |-> e]

\* type(v).__name__
TypeName(v) ==
    CASE v.k = "null" -> "NoneType"
      [] v.k = "bool" -> "bool"
      [] v.k = "int" -> "int"
      [] v.k = "float" -> "float"
      [] v.k = "str" -> "str"
      [] v.k = "list" -> "list"
      [] v.k = "obj" -> "dict"

\* bool(v)
Truthy(v) ==
    CASE v.k = "null" -> FALSE
      [] v.k = "bool" -> v.n # 0
      [] v.k = "int" -> v.n # 0
      [] v.k = "float" -> v.n # 0
      [] v.k = "str" -> v.s # ""
      [] v.k = "list" -> v.n # 0
      [] v.k = "obj" -> DOMAIN v.o # {}

\* A faulty d.get: the default is forgotten, an absent key gives None.
DictGetNoDefault(d, key, default) == IF key \in DOMAIN d.o THEN d.o[key] ELSE JNull

\* d.get(key, default) on a dict d
DictGet(d, key, default) == IF key \in DOMAIN d.o THEN d.o[key] ELSE default

\* str(e) of the AttributeError raised by v.get on a value that is no dict
NoAttrGet(v) == "'" \o TypeName(v) \o "' object has no attribute 'get'"

\* str(e) of the TypeError raised by v > 0 on a value that is no number
NoOrder(v) == "'>' not supported between instances of '" \o TypeName(v) \o "' and 'int'"

\* str(e) of the TypeError raised by v / w on a value v that is no number,
\* w being one of type t
NoDivide(v, t) == "unsupported operand type(s) for /: '" \o TypeName(v) \o "' and '" \o t \o "'"

\* The values that > and / accept: int, float and bool (an int).
IsNum(v) == v.k \in {"int", "float", "bool"}

\* A number in hundredths.
Hundredths(v) == IF v.k = "float" THEN v.n ELSE 100 * v.n

\* str.upper() on the strings the model uses
Upper(t) ==
    CASE t = "ind" -> "IND"
      [] t = "Ind" -> "IND"
      [] t = "bd" -> "BD"
      [] t = "pk" -> "PK"
      [] t = "xx" -> "XX"
      [] t = "india" -> "INDIA"
      [] t = "br" -> "BR"
      [] t = "cs" -> "CS"
      [] OTHER -> t

\* str.lower() on the strings the model uses
Lower(t) ==
    CASE t = "IND" -> "ind"
      [] t = "Ind" -> "ind"
      [] t = "BD" -> "bd"
      [] t = "XX" -> "xx"
      [] OTHER -> t

\* ------------------------------------------------- binary floating point
\* A double is [neg, m, e]: its sign, its 53-bit significand and the
\* exponent of its last bit: the value is m * 2^e. The significand is a
\* sequence of digits to the base 2^13, most significant first: << >> for
\* zero, else a leading 1 followed by MantissaDigits digits, 52 bits.
Limb == 2^13
MantissaDigits == 4

\* floor(log2(a / b)) for integers a, b > 0
RECURSIVE Log2Floor(_, _)
Log2Floor(a, b) ==
    IF a >= 2 * b THEN Log2Floor(a, 2 * b) + 1
    ELSE IF a < b THEN Log2Floor(2 * a, b) - 1
    ELSE 0

\* The integer a sequence of digits stands for.
RECURSIVE DigitsValue(_)
DigitsValue(d) ==
    IF d = << >> THEN 0
    ELSE DigitsValue(SubSeq(d, 1, Len(d) - 1)) * Limb + d[Len(d)]

\* d + 1
RECURSIVE Incr(_)
Incr(d) ==
    IF d = << >> THEN << 1 >>
    ELSE IF d[Len(d)] + 1 < Limb THEN [d EXCEPT ![Len(d)] = @ + 1]
    ELSE Append(Incr(SubSeq(d, 1, Len(d) - 1)), 0)

\* d * c + carry, for a small integer c: as many digits as d, the first one
\* taking what is carried out of the others.
RECURSIVE MulSmall(_, _, _)
MulSmall(d, c, carry) ==
    IF Len(d) = 1 THEN << d[1] * c + carry >>
    ELSE Append(MulSmall(SubSeq(d, 1, Len(d) - 1), c, (d[Len(d)] * c + carry) \div Limb),
                (d[Len(d)] * c + carry) % Limb)

\* floor(d / 2^t) for 1 <= t <= 13, in as many digits as d.
ShiftRight(d, t) ==
    [j \in 1..Len(d) |->
        (IF j = 1 THEN 0 ELSE (d[j - 1] % 2^t) * 2^(13 - t)) + d[j] \div 2^t]

\* The first `count` digits of the fraction r / b (r < b).
RECURSIVE DivDigits(_, _, _)
DivDigits(r, b, count) ==
    IF count = 0 THEN << >>
    ELSE << (r * Limb) \div b >> \o DivDigits((r * Limb) % b, b, count - 1)

\* What is left of r / b after `count` digits.
RECURSIVE DivRem(_, _, _)
DivRem(r, b, count) ==
    IF count = 0 THEN r ELSE DivRem((r * Limb) % b, b, count - 1)

\* Round to nearest, ties to even: the significand m, whose last bit has
\* exponent e, followed by a guard bit and a sticky flag.
RoundNearestEven(neg, m, guard, sticky, e) ==
    LET up == guard = 1 /\ (sticky \/ m[Len(m)] % 2 = 1)
        inc == IF up THEN Incr(m) ELSE m
    IN  IF inc[1] = 2
        THEN [neg |-> neg, m |-> << 1 >> \o [j \in 1..MantissaDigits |-> 0], e |-> e + 1]
        ELSE [neg |-> neg, m |-> inc, e |-> e]

FloatZero == [neg |-> FALSE, m |-> << >>, e |-> 0]

\* a / b for integers a and b > 0: the double nearest to the quotient.
FloatDiv(a, b) ==
    IF a = 0 THEN FloatZero
    ELSE LET abs == IF a < 0 THEN 0 - a ELSE a
             p == Log2Floor(abs, b)
             num == IF p < 0 THEN abs * 2^(0 - p) ELSE abs
             den == IF p > 0 THEN b * 2^p ELSE b
             rem == DivRem(num - den, den, MantissaDigits)
         IN  RoundNearestEven(a < 0, << 1 >> \o DivDigits(num - den, den, MantissaDigits),
                              IF 2 * rem >= den THEN 1 ELSE 0, 2 * rem # den,
                              p - 13 * MantissaDigits)

\* x * 100: the double nearest to the product. The product of the
\* significand has 6 or 7 bits too many.
FloatMul100(x) ==
    IF x.m = << >> THEN x
    ELSE LET prod == MulSmall(x.m, 100, 0)
             drop == IF prod[1] < 128 THEN 6 ELSE 7
             dropped == prod[Len(prod)] % 2^drop
         IN  RoundNearestEven(x.neg, ShiftRight(prod, drop), dropped \div 2^(drop - 1),
                              dropped % 2^(drop - 1) # 0, x.e + drop)

\* 100 * x for a double 0 < |x| < 2^31 / 100, as [whole, guard, sticky]: its
\* integer part, the first bit of its fraction, whether any other is set.
\* The product of the significand by 100 loses its last -x.e bits: k whole
\* digits and t bits, 1 <= t <= 13.
Hundredfold(x) ==
    LET prod == MulSmall(x.m, 100, 0)
        k == (0 - x.e - 1) \div 13
        t == (0 - x.e) - 13 * k
        kept == SubSeq(prod, 1, Len(prod) - k)
        last == kept[Len(kept)] % 2^t
    IN  IF k >= Len(prod) THEN [whole |-> 0, guard |-> 0, sticky |-> TRUE]
        ELSE [whole |-> DigitsValue(ShiftRight(kept, t)),
              guard |-> last \div 2^(t - 1),
              sticky |-> \/ last % 2^(t - 1) # 0
                         \/ \E j \in (Len(prod) - k + 1)..Len(prod) : prod[j] # 0]

\* A faulty round: the third decimal is cut off.
Round2Truncating(x) ==
    IF x.m = << >> THEN JFloat(0)
    ELSE IF Hundredfold(x).whole = 0 THEN (IF x.neg THEN NegZero ELSE JFloat(0))
    ELSE JFloat(IF x.neg THEN 0 - Hundredfold(x).whole ELSE Hundredfold(x).whole)

\* round(x, 2): the exact value of the double x rounded to the nearest
\* hundredth, ties to even; a negative x that rounds to zero gives -0.0.
Round2(x) ==
    IF x.m = << >> THEN JFloat(0)
    ELSE LET c == Hundredfold(x)
             h == IF c.guard = 1 /\ (c.sticky \/ c.whole % 2 = 1) THEN c.whole + 1 ELSE c.whole
         IN  IF h = 0 THEN (IF x.neg THEN NegZero ELSE JFloat(0))
             ELSE JFloat(IF x.neg THEN 0 - h ELSE h)

\* ------------------------------------------------- parse_player_data
\* The keys of the dict built at "result = {...}" plus the two ratios.
BaseFields ==
    {"uid", "server", "gamemode", "matchmode", "name", "level", "exp",
     "rank_points", "clan_name", "clan_level", "likes", "matches_played",
     "kills", "headshots", "damage", "wins", "top_3", "top_6", "survival_time"}
RecordFields == BaseFields \cup {"win_rate", "kd_ratio"}

NoPlayerData == [error |-> "No player data found or invalid UID"]

\* A faulty validity check: the status field is not looked at.
IsInvalidDataNoStatus(data) == ~Truthy(data)

\* "if not data or isinstance(data, dict) and data.get('status') == 'error'"
IsInvalidData(data) ==
    \/ ~Truthy(data)
    \/ (data.k = "obj" /\ DictGet(data, "status", JNull) = JStr("error"))

\* A faulty payload selection: the nested payload is completed, key by key,
\* with the sub-objects of the root.
SelectPayloadMerged(data) ==
    IF "data" \in DOMAIN data.o /\ data.o["data"].k = "obj"
    THEN JObj([key \in DOMAIN data.o["data"].o \cup (DOMAIN data.o \ {"data", "status"}) |->
                 IF key \in DOMAIN data.o["data"].o THEN data.o["data"].o[key] ELSE data.o[key]])
    ELSE IF "data" \in DOMAIN data.o THEN data.o["data"] ELSE data

\* "player_data = data.get('data', data)": the nested payload when the root
\* has a data key, else the root itself.
SelectPayload(data) == DictGet(data, "data", data)

\* "result = {...}": the dict literal, its values read in the source's order.
BuildResult(basic_info, clan_info, stats, uid, server, gamemode, matchmode) ==
    [uid |-> JStr(uid),
     server |-> JStr(Upper(server)),
     gamemode |-> JStr(Upper(gamemode)),
     matchmode |-> JStr(matchmode),
     name |-> DictGet(basic_info, "nickname", JStr("Unknown")),
     level |-> DictGet(basic_info, "level", JInt(0)),
     exp |-> DictGet(basic_info, "exp", JInt(0)),
     rank_points |-> DictGet(basic_info, "rankingPoints", JInt(0)),
     clan_name |-> DictGet(clan_info, "clanName", JStr("No Clan")),
     clan_level |-> DictGet(clan_info, "clanLevel", JInt(0)),
     likes |-> DictGet(basic_info, "liked", JInt(0)),
     matches_played |-> DictGet(stats, "matchesPlayed", JInt(0)),
     kills |-> DictGet(stats, "kills", JInt(0)),
     headshots |-> DictGet(stats, "headshots", JInt(0)),
     damage |-> DictGet(stats, "damage", JInt(0)),
     wins |-> DictGet(stats, "wins", JInt(0)),
     top_3 |-> DictGet(stats, "top3", JInt(0)),
     top_6 |-> DictGet(stats, "top6", JInt(0)),
     survival_time |-> DictGet(stats, "survivalTime", JInt(0))]

WithRatios(result, win_rate, kd_ratio) ==
    [f \in RecordFields |->
        IF f = "win_rate" THEN win_rate
        ELSE IF f = "kd_ratio" THEN kd_ratio
        ELSE result[f]]

\* The branch taken when matches_played > 0:
\*   win_rate = round((wins / matches_played) * 100, 2)
\*   deaths = matches_played - wins
\*   kd_ratio = round(kills / max(deaths, 1), 2)
\* A division raises TypeError on an operand that is no number and
\* ZeroDivisionError on a zero divisor; max(deaths, 1) is deaths unless the
\* int 1 is greater.
ComputeRatios(result) ==
    LET mp == result["matches_played"]
        wins == result["wins"]
        kills == result["kills"]
        deaths == Hundredths(mp) - Hundredths(wins)
        deathsType == IF mp.k = "float" \/ wins.k = "float" THEN "float" ELSE "int"
        divisor == IF deaths >= 100 THEN deaths ELSE 100
        divisorType == IF deaths >= 100 THEN deathsType ELSE "int"
    IN  IF ~IsNum(wins) THEN Raise(NoDivide(wins, TypeName(mp)))
        ELSE IF Hundredths(mp) = 0
        THEN Raise(IF mp.k = "float" \/ wins.k = "float"
                   THEN "float division by zero" ELSE "division by zero")
        ELSE IF ~IsNum(kills) THEN Raise(NoDivide(kills, divisorType))
        ELSE Return(WithRatios(result,
                               Round2(FloatMul100(FloatDiv(Hundredths(wins), Hundredths(mp)))),
                               Round2(FloatDiv(Hundredths(kills), divisor))))

\* A faulty ratio step: the test is matches_played >= 0, so that a player
\* with no match is divided by zero.
CalcRatiosNoZeroCheck(result) ==
    LET mp == result["matches_played"]
    IN  IF ~IsNum(mp) THEN Raise(NoOrder(mp))
        ELSE IF Hundredths(mp) >= 0 THEN ComputeRatios(result)
        ELSE Return(WithRatios(result, JInt(0), JInt(0)))

\* "# Calculate ratios": the if/else that adds win_rate and kd_ratio.
CalcRatios(result) ==
    LET mp == result["matches_played"]
    IN  IF ~IsNum(mp) THEN Raise(NoOrder(mp))
        ELSE IF Hundredths(mp) > 0 THEN ComputeRatios(result)
        ELSE Return(WithRatios(result, JInt(0), JInt(0)))

\* The body of the try block: returns a dict or raises.
ParseBody(data, uid, server, gamemode, matchmode) ==
    IF IsInvalidData(data) THEN Return(NoPlayerData)
    ELSE IF data.k # "obj" THEN Raise(NoAttrGet(data))
    ELSE LET player_data == SelectPayload(data)
         IN  IF player_data.k # "obj" THEN Raise(NoAttrGet(player_data))
             ELSE LET basic_info == DictGet(player_data, "basicInfo", EmptyObj)
                      clan_info == DictGet(player_data, "clanBasicInfo", EmptyObj)
                      stats == DictGet(player_data, "stats", EmptyObj)
                  IN  IF basic_info.k # "obj" THEN Raise(NoAttrGet(basic_info))
                      ELSE IF clan_info.k # "obj" THEN Raise(NoAttrGet(clan_info))
                      ELSE IF stats.k # "obj" THEN Raise(NoAttrGet(stats))
                      ELSE CalcRatios(BuildResult(basic_info, clan_info, stats,
                                                  uid, server, gamemode, matchmode))

\* A faulty parse_player_data without its try/except: a fault of the body
\* reaches the caller.
ParseNoGuard(out) == out

\* "except Exception as e: return {'error': f'Data parsing error: {str(e)}'}"
ParseGuard(out) ==
    IF out.raised THEN Return([error |-> "Data parsing error: " \o out.exc])
    ELSE out

\* parse_player_data: what the call yields to its caller.
parse_player_data(data, uid, server, gamemode, matchmode) ==
    ParseGuard(ParseBody(data, uid, server, gamemode, matchmode))

\* ------------------------------------------------------------ formatting
Pad2(n) == IF n < 10 THEN "0" \o ToString(n) ELSE ToString(n)
Pad3(n) == IF n < 10 THEN "00" \o ToString(n)
           ELSE IF n < 100 THEN "0" \o ToString(n) ELSE ToString(n)

\* format(n, ",") of an int n >= 0
RECURSIVE Commas(_)
Commas(n) == IF n < 1000 THEN ToString(n)
             ELSE Commas(n \div 1000) \o "," \o Pad3(n % 1000)

\* repr of a list of n zeros, without the brackets
RECURSIVE Zeros(_)
Zeros(n) == IF n = 0 THEN "" ELSE IF n = 1 THEN "0" ELSE "0, " \o Zeros(n - 1)

\* The text of a float v of hundredths: its sign, its integer part, with
\* thousands separators if grouped, and the decimals of its shortest repr,
\* at least one.
FloatText(v, grouped) ==
    LET a == IF v.n < 0 THEN 0 - v.n ELSE v.n
        frac == a % 100
    IN  (IF v.n < 0 \/ v = NegZero THEN "-" ELSE "")
        \o (IF grouped THEN Commas(a \div 100) ELSE ToString(a \div 100)) \o "."
        \o (IF frac % 10 = 0 THEN ToString(frac \div 10) ELSE Pad2(frac))

\* f"{v}": str(v). Dicts reaching a display field are empty in this model.
PyStr(v) ==
    CASE v.k = "null" -> "None"
      [] v.k = "bool" -> (IF v.n = 1 THEN "True" ELSE "False")
      [] v.k = "int" -> (IF v.n < 0 THEN "-" \o ToString(0 - v.n) ELSE ToString(v.n))
      [] v.k = "float" -> FloatText(v, FALSE)
      [] v.k = "str" -> v.s
      [] v.k = "list" -> "[" \o Zeros(v.n) \o "]"
      [] v.k = "obj" -> "{}"

\* f"{v:,}": the thousands-separator format, which only numbers accept; a
\* bool is formatted as the int it is.
FmtComma(v) ==
    CASE v.k \in {"int", "bool"} ->
            Return(IF v.n < 0 THEN "-" \o Commas(0 - v.n) ELSE Commas(v.n))
      [] v.k = "float" -> Return(FloatText(v, TRUE))
      [] v.k = "str" -> Raise("Cannot specify ',' with 's'.")
      [] v.k = "null" -> Raise("unsupported format string passed to NoneType.__format__")
      [] v.k = "list" -> Raise("unsupported format string passed to list.__format__")
      [] v.k = "obj" -> Raise("unsupported format string passed to dict.__format__")

\* --------------------------------------------------------------- messages
NoEmbed == [x \in {} |-> x]

\* followup.send("... Invalid UID! ...")
InvalidUidMessage ==
    [content |-> ":x: Invalid UID! Must be numeric and at least 6 digits.",
     embed |-> NoEmbed]

\* The red embed of the `if "error" in player_data` branch.
ErrorEmbed(pd) ==
    [title |-> ":x: Player Not Found",
     description |-> pd["error"],
     color |-> "red",
     fields |-> << [name |-> ":bulb: Try This Example",
                    value |-> "'/stats uid:11959685790 server:ind matchmode:RANKED gamemode:br'",
                    inline |-> FALSE] >>,
     footer |-> ""]

\* The fields formatted with ":," in the stats embed, in the source's order.
CommaFields == << "likes", "matches_played", "wins", "kills", "headshots", "damage", "top_3" >>

\* The first format fault of the stats embed, if any.
FirstFormatFault(pd) ==
    LET bad == {j \in 1..Len(CommaFields) : FmtComma(pd[CommaFields[j]]).raised}
    IN  IF bad = {} THEN Return("")
        ELSE FmtComma(pd[CommaFields[CHOOSE j \in bad : \A j2 \in bad : j <= j2]])

\* The gold embed built from a stats record: raises where a ":," field is
\* no number.
StatsEmbed(pd) ==
    LET C(f) == FmtComma(pd[f]).value
        S(f) == PyStr(pd[f])
        fault == FirstFormatFault(pd)
    IN  IF fault.raised THEN fault
        ELSE Return(
          [title |-> ":dart: " \o S("name"),
           description |-> "**UID:** '" \o S("uid") \o "' U+2022 **Server:** " \o S("server"),
           color |-> "gold",
           fields |-> <<
             [name |-> ":bust_in_silhouette: Player Info",
              value |-> "**Name:** " \o S("name") \o "\n**Level:** " \o S("level")
                        \o "\n**Clan:** " \o S("clan_name"),
              inline |-> TRUE],
             [name |-> ":video_game: Mode",
              value |-> "**Type:** " \o Upper(pd["gamemode"].s) \o "\n**Match:** "
                        \o S("matchmode") \o "\n**Likes:** " \o C("likes"),
              inline |-> TRUE],
             [name |-> ":bar_chart: Matches",
              value |-> "**Played:** " \o C("matches_played") \o "\n**Wins:** "
                        \o C("wins") \o "\n**WR:** " \o S("win_rate") \o "%",
              inline |-> TRUE],
             [name |-> ":crossed_swords: Combat",
              value |-> "**Kills:** " \o C("kills") \o "\n**KD:** " \o S("kd_ratio")
                        \o "\n**HS:** " \o C("headshots"),
              inline |-> TRUE],
             [name |-> ":chart_with_upwards_trend: Performance",
              value |-> "**Damage:** " \o C("damage") \o "\n**Top 3:** " \o C("top_3")
                        \o "\n**Survival:** " \o S("survival_time") \o "s",
              inline |-> TRUE] >>,
           footer |-> "Free Fire Stats U+2022 " \o Upper(pd["gamemode"].s) \o " U+2022 "
                      \o S("matchmode")])

\* ------------------------------------------------------- input validation
SERVERS == << "ind", "bd", "pk", "br", "na", "eu", "me", "tr", "id", "sg", "my", "th", "vn", "ph" >>

AsciiDigits == {"0", "1", "2", "3", "4", "5", "6", "7", "8", "9"}
\* Characters of a UID: ASCII digits, ARABIC-INDIC DIGIT THREE (a decimal
\* digit, category Nd), SUPERSCRIPT TWO (a digit that is no decimal digit,
\* category No), a letter and a blank.
Chars == {"1", "7", "U+0663", "U+00B2", "a", " "}

\* One character for which str.isdecimal() is true.
IsDecimalChar(c) == c \in AsciiDigits \cup {"U+0663"}

\* One character for which str.isdigit() is true: Numeric_Type Decimal or Digit.
IsDigitChar(c) == c \in AsciiDigits \cup {"U+0663", "U+00B2"}

\* uid.isdigit(): at least one character, and all of them digits.
IsDigit(u) == Len(u) > 0 /\ \A j \in 1..Len(u) : IsDigitChar(u[j])

\* "if not uid.isdigit() or len(uid) < 6"
UidRejected(u) == ~IsDigit(u) \/ Len(u) < MinUidLen

\* The text of a UID, a sequence of characters.
RECURSIVE UidStr(_)
UidStr(u) == IF u = << >> THEN "" ELSE Head(u) \o UidStr(Tail(u))

\* The URL of get_player_stats.
Url(u, srv, gm, mm) ==
    "https://freefire-api-skxvercel.app/get_player_stats?server=" \o srv
        \o "&uid=" \o UidStr(u) \o "&matchmode=" \o mm \o "&gamemode=" \o gm

\* ------------------------------------------------------------------ state
VARIABLES
    pc,           \* where each invocation of player_stats stands
    uid,          \* its arguments
    server,
    gamemode,
    matchmode,
    requests,     \* the URLs it has sent a GET to, in order
    response,     \* the HTTP status and the JSON body it received
    parsed,       \* what each of its calls of parse_player_data yielded
    outcome,      \* what its get_player_stats is leaving the with blocks with
    player_data,  \* what get_player_stats returned to it
    sent          \* the followup messages it has sent, in order

vars == << pc, uid, server, gamemode, matchmode, requests, response, parsed, outcome,
          player_data, sent >>

Invs == 1..NInv
NoDict == [x \in {} |-> x]
NoResponse == [status |-> 0, body |-> JNull, has_body |-> FALSE]

\* How the with blocks of get_player_stats are left: by a return statement
\* with its dict, or by an exception of some kind with its str(e).
NoOutcome == [raised |-> FALSE, value |-> NoDict, kind |-> "", exc |-> ""]
Returning(d) == [raised |-> FALSE, value |-> d, kind |-> "return", exc |-> ""]
Raising(kind, text) == [raised |-> TRUE, value |-> NoDict, kind |-> kind, exc |-> text]

Init ==
    /\ pc = [i \in Invs |-> "idle"]
    /\ uid = [i \in Invs |-> << >>]
    /\ server = [i \in Invs |-> ""]
    /\ gamemode = [i \in Invs |-> ""]
    /\ matchmode = [i \in Invs |-> ""]
    /\ requests = [i \in Invs |-> << >>]
    /\ response = [i \in Invs |-> NoResponse]
    /\ parsed = [i \in Invs |-> << >>]
    /\ outcome = [i \in Invs |-> NoOutcome]
    /\ player_data = [i \in Invs |-> NoDict]
    /\ sent = [i \in Invs |-> << >>]

\* --------------------------------------------------------------- player_stats
\* The rest of player_stats once get_player_stats has returned pd, up to
\* its followup.send: the error embed, or the stats embed, whose formatting
\* may raise. An exception leaves the handler without any message sent.
Present(i, pd) ==
    IF "error" \in DOMAIN pd
    THEN /\ sent' = [sent EXCEPT ![i] = Append(@, [content |-> "", embed |-> ErrorEmbed(pd)])]
         /\ pc' = [pc EXCEPT ![i] = "done"]
    ELSE LET e == StatsEmbed(pd)
         IN  IF e.raised
             THEN /\ sent' = sent
                  /\ pc' = [pc EXCEPT ![i] = "raised"]
             ELSE /\ sent' = [sent EXCEPT ![i] = Append(@, [content |-> "", embed |-> e.value])]
                  /\ pc' = [pc EXCEPT ![i] = "done"]

\* A user runs /stats: the command starts and awaits interaction.response.defer().
Invoke(i, U, S, G, M) ==
    /\ pc[i] = "idle"
    /\ \E u \in U, srv \in S, gm \in G, mm \in M :
          /\ uid' = [uid EXCEPT ![i] = u]
          /\ server' = [server EXCEPT ![i] = srv]
          /\ gamemode' = [gamemode EXCEPT ![i] = gm]
          /\ matchmode' = [matchmode EXCEPT ![i] = mm]
    /\ pc' = [pc EXCEPT ![i] = "deferred"]
    /\ UNCHANGED << requests, response, parsed, outcome, player_data, sent >>

\* After defer(): the UID check, then either the InvalidUid message or the
\* call of get_player_stats up to the await of its session.get(url, ...).
Validate(i) ==
    /\ pc[i] = "deferred"
    /\ IF UidRejected(uid[i])
       THEN /\ sent' = [sent EXCEPT ![i] = Append(@, InvalidUidMessage)]
            /\ pc' = [pc EXCEPT ![i] = "done"]
            /\ UNCHANGED requests
       ELSE /\ requests' = [requests EXCEPT ![i] =
                              Append(@, Url(uid[i], server[i], gamemode[i], matchmode[i]))]
            /\ pc' = [pc EXCEPT ![i] = "awaiting_response"]
            /\ UNCHANGED sent
    /\ UNCHANGED << uid, server, gamemode, matchmode, response, parsed, outcome, player_data >>

\* A faulty fetch that sends the GET again when the status is not 200.
ReceiveStatusRetry(i, Statuses) ==
    /\ pc[i] = "awaiting_response"
    /\ Len(requests[i]) < 3
    /\ \E st \in Statuses :
          /\ response' = [response EXCEPT ![i].status = st]
          /\ IF st = HttpOk
             THEN /\ pc' = [pc EXCEPT ![i] = "awaiting_json"]
                  /\ UNCHANGED requests
             ELSE /\ requests' = [requests EXCEPT ![i] =
                                    Append(@, Url(uid[i], server[i], gamemode[i], matchmode[i]))]
                  /\ UNCHANGED pc
    /\ UNCHANGED << uid, server, gamemode, matchmode, parsed, outcome, player_data, sent >>

\* session.get yields the response: with status 200 get_player_stats goes
\* on to the await of response.json(); with any other status it returns the
\* error dict, which starts the exit of the response's with block.
ReceiveStatus(i, Statuses) ==
    /\ pc[i] = "awaiting_response"
    /\ \E st \in Statuses :
          /\ response' = [response EXCEPT ![i].status = st]
          /\ IF st = HttpOk
             THEN /\ pc' = [pc EXCEPT ![i] = "awaiting_json"]
                  /\ UNCHANGED outcome
             ELSE /\ pc' = [pc EXCEPT ![i] = "releasing"]
                  /\ outcome' = [outcome EXCEPT ![i] =
                                   Returning([error |-> "API returned status " \o ToString(st)])]
    /\ UNCHANGED << uid, server, gamemode, matchmode, requests, parsed, player_data, sent >>

\* The exceptions of the fetch, by the except clause that catches them:
\* aiohttp.ClientError, asyncio.TimeoutError, any other Exception.
FetchErrorKinds == {"ClientError", "TimeoutError", "Exception"}

\* str(e) of the exception of each kind.
FetchErrorText(kind) ==
    CASE kind = "ClientError" -> "Cannot connect to host"
      [] kind = "TimeoutError" -> ""
      [] kind = "Exception" -> "Expecting value: line 1 column 1 (char 0)"

\* session.get or response.json() raises. An exception of session.get
\* leaves the session's with block, the response's never entered; one of
\* response.json() leaves the response's with block first.
FetchFails(i) ==
    /\ pc[i] \in {"awaiting_response", "awaiting_json"}
    /\ \E kind \in FetchErrorKinds :
          outcome' = [outcome EXCEPT ![i] = Raising(kind, FetchErrorText(kind))]
    /\ pc' = [pc EXCEPT ![i] = IF pc[i] = "awaiting_response" THEN "closing" ELSE "releasing"]
    /\ UNCHANGED << uid, server, gamemode, matchmode, requests, response, parsed,
                    player_data, sent >>

\* How the call of parse_player_data ends in get_player_stats: "return
\* self.parse_player_data(...)", or the exception it lets through.
FetchResult(out) ==
    IF out.raised THEN Raising("Exception", out.exc) ELSE Returning(out.value)

\* response.json() yields the body: parse_player_data is called on it and
\* the return of its dict starts the exit of the response's with block.
ReceiveJson(i, Bodies) ==
    /\ pc[i] = "awaiting_json"
    /\ \E body \in Bodies :
          LET out == parse_player_data(body, UidStr(uid[i]), server[i], gamemode[i], matchmode[i])
          IN  /\ response' = [response EXCEPT ![i].body = body, ![i].has_body = TRUE]
              /\ parsed' = [parsed EXCEPT ![i] = Append(@, out)]
              /\ outcome' = [outcome EXCEPT ![i] = FetchResult(out)]
    /\ pc' = [pc EXCEPT ![i] = "releasing"]
    /\ UNCHANGED << uid, server, gamemode, matchmode, requests, player_data, sent >>

\* The exit of "async with session.get(...) as response" has released the
\* response: the exit of "async with aiohttp.ClientSession() as session"
\* starts, which awaits session.close().
ReleaseResponse(i) ==
    /\ pc[i] = "releasing"
    /\ pc' = [pc EXCEPT ![i] = "closing"]
    /\ UNCHANGED << uid, server, gamemode, matchmode, requests, response, parsed, outcome,
                    player_data, sent >>

\* What get_player_stats returns once its with blocks are left: the dict of
\* its return statement, or the error dict of the except clause that catches
\* the exception.
ExceptClauses(r) ==
    IF ~r.raised THEN r.value
    ELSE CASE r.kind = "ClientError" -> [error |-> "Network error: " \o r.exc]
           [] r.kind = "TimeoutError" -> [error |-> "API request timed out"]
           [] OTHER -> [error |-> "Unexpected error: " \o r.exc]

\* session.close() is done: get_player_stats returns, player_stats assigns
\* player_data and presents it.
CloseSession(i) ==
    /\ pc[i] = "closing"
    /\ player_data' = [player_data EXCEPT ![i] = ExceptClauses(outcome[i])]
    /\ Present(i, ExceptClauses(outcome[i]))
    /\ UNCHANGED << uid, server, gamemode, matchmode, requests, response, parsed, outcome >>

\* ------------------------------------------------------------ input sets
GAME_MODES == {"br", "cs"}
MATCH_MODES == {"CAREER", "NORMAL", "RANKED"}

\* n times the digit "1".
Ones(n) == [j \in 1..n |-> "1"]

\* Every UID of at most MaxUidLen characters that is all "1" but for at most
\* one character, which is any of Chars.
RichUids ==
    {Ones(n) : n \in 0..MaxUidLen}
        \cup {[Ones(n) EXCEPT ![j] = c] : n \in 1..MaxUidLen, j \in 1..MaxUidLen, c \in Chars}

ValidUid == Ones(MinUidLen)
SmallUids == {ValidUid, << "1", "a" >>}

RichServers == {"ind", "IND", "Ind", "bd", "BD", "xx", "india"}

\* An optional key of a JSON object: absent, or present with one of vals.
Opt(key, vals) == {NoKeys} \cup {key :> v : v \in vals}

FullBasicInfo ==
    JObj([nickname |-> JStr("Neo"), level |-> JInt(7), exp |-> JInt(1500),
          rankingPoints |-> JInt(3200), liked |-> JInt(1234567)])
FullClanInfo == JObj([clanName |-> JStr("Wolves"), clanLevel |-> JInt(3)])
FullStats ==
    JObj([matchesPlayed |-> JInt(10), wins |-> JInt(4), kills |-> JInt(20),
          headshots |-> JInt(5), damage |-> JInt(12345), top3 |-> JInt(6),
          top6 |-> JInt(7), survivalTime |-> JInt(999)])

BasicInfoValues ==
    {JNull, JStr("x"), EmptyObj, FullBasicInfo,
     JObj([liked |-> JStr("many")]), JObj([nickname |-> JNull, level |-> JStr("7")]),
     JObj([liked |-> JFloat(123450), level |-> JBool(1)])}
ClanInfoValues == {JList(0), EmptyObj, FullClanInfo}
StatsValues ==
    {JNull, EmptyObj, FullStats, JObj([matchesPlayed |-> JStr("10")]),
     JObj([wins |-> JStr("4")]), JObj([matchesPlayed |-> JInt(0), wins |-> JInt(3), kills |-> JInt(9)])}

\* The player payloads: each sub-object absent or one of its values.
Payloads ==
    {b @@ c @@ t : b \in Opt("basicInfo", BasicInfoValues),
                   c \in Opt("clanBasicInfo", ClanInfoValues),
                   t \in Opt("stats", StatsValues)}

\* What the root object may hold beside status and data.
RootPayloads ==
    {NoKeys,
     "basicInfo" :> JObj([nickname |-> JStr("Root"), liked |-> JInt(1)]),
     "stats" :> JObj([matchesPlayed |-> JInt(2), wins |-> JInt(1), kills |-> JInt(1)]),
     ("basicInfo" :> JNull) @@ ("clanBasicInfo" :> JObj([clanName |-> JStr("RootClan")]))}

StatusValues == {JStr("error"), JStr("ok"), JInt(1)}

\* Root objects by shape: status, data and root-level sub-objects, each
\* absent or present.
ShapeBodies ==
    {JObj(st @@ d @@ r) : st \in Opt("status", StatusValues),
                          d \in Opt("data", {JNull, JList(1)} \cup {JObj(pl) : pl \in Payloads}),
                          r \in RootPayloads}
        \cup {JObj(st @@ pl) : st \in Opt("status", StatusValues), pl \in Payloads}

\* The values of a counter of the stats sub-object.
CounterValues ==
    {JNull, JStr("7"), JBool(0), JBool(1), JFloat(0), JFloat(25), JFloat(150),
     JInt(10), JInt(20), JInt(40), JInt(400)}
        \cup {JInt(n) : n \in (0 - 1)..MaxStat}

\* Root objects holding only stats, by the values of the three counters the
\* ratios read.
RatioBodies ==
    {JObj("stats" :> JObj(m @@ w @@ k)) : m \in Opt("matchesPlayed", CounterValues),
                                          w \in Opt("wins", CounterValues),
                                          k \in Opt("kills", CounterValues)}

\* Bodies that are no JSON object.
ScalarBodies ==
    {JNull, JBool(0), JBool(1), JInt(0), JInt(5), JFloat(0), JFloat(150),
     JStr(""), JStr("x"), JList(0), JList(2)}

RichBodies == ShapeBodies \cup RatioBodies \cup ScalarBodies

SmallBodies ==
    {JNull,
     JObj("data" :> JObj(("basicInfo" :> FullBasicInfo) @@ ("stats" :> FullStats))),
     JObj("basicInfo" :> JObj([liked |-> JStr("many")]))}

SmallStatuses == {HttpOk, 404}
RichStatuses == {HttpOk, 204, 301, 404, 429, 500, 503}

\* ----------------------------------------------------------- specifications
\* Concurrent invocations, few inputs each.
Next ==
    \E i \in Invs :
        \/ Invoke(i, SmallUids, {"ind"}, {"br"}, {"CAREER"})
        \/ Validate(i)
        \/ ReceiveStatus(i, SmallStatuses)
        \/ FetchFails(i)
        \/ ReceiveJson(i, SmallBodies)
        \/ ReleaseResponse(i)
        \/ CloseSession(i)

Spec == Init /\ [][Next]_vars

\* One invocation, every UID and server of the rich sets, every status.
NextValidate ==
    \/ Invoke(1, RichUids, RichServers, GAME_MODES, MATCH_MODES)
    \/ Validate(1)
    \/ ReceiveStatus(1, RichStatuses)
    \/ FetchFails(1)
    \/ ReceiveJson(1, SmallBodies)
    \/ ReleaseResponse(1)
    \/ CloseSession(1)

SpecValidate == Init /\ [][NextValidate]_vars

\* One invocation with a valid UID, every body of the rich set.
NextParse ==
    \/ Invoke(1, {ValidUid}, {"ind"}, {"br"}, {"RANKED"})
    \/ Validate(1)
    \/ ReceiveStatus(1, SmallStatuses)
    \/ FetchFails(1)
    \/ ReceiveJson(1, RichBodies)
    \/ ReleaseResponse(1)
    \/ CloseSession(1)

SpecParse == Init /\ [][NextParse]_vars

\* ------------------------------------------------------------------ claims
Ended(i) == pc[i] \in {"done", "raised"}
Started(i) == pc[i] \notin {"idle", "deferred"}
IsRecord(d) == DOMAIN d = RecordFields
IsFailure(d) == DOMAIN d = {"error"}
ServerCodes == {SERVERS[j] : j \in 1..Len(SERVERS)}
ErrorMessage(text) == [content |-> "", embed |-> ErrorEmbed([error |-> text])]

\* A UID the specification calls invalid: shorter than 6 characters, or
\* holding a character that is no decimal digit.
SpecInvalidUid(u) == Len(u) < MinUidLen \/ \E j \in 1..Len(u) : ~IsDecimalChar(u[j])

\* C1: an invocation whose UID holds a character that is no decimal digit, or
\* is shorter than 6, ends with the InvalidUid message and issues no GET.
C1_InvalidUidNeverFetched ==
    \A i \in Invs :
        (Started(i) /\ SpecInvalidUid(uid[i]))
            => (sent[i] = << InvalidUidMessage >> /\ requests[i] = << >>)

\* C2: an invocation whose server is not, case-insensitively, one of SERVERS
\* is refused at once: it issues no GET.
C2_InvalidRegionNeverFetched ==
    \A i \in Invs :
        (Started(i) /\ Lower(server[i]) \notin ServerCodes) => requests[i] = << >>

\* The error get_player_stats makes of the status an invocation received.
StatusError(i) == [error |-> "API returned status " \o ToString(response[i].status)]

\* C3: an invocation issues at most one GET; on an HTTP status other than 200
\* get_player_stats returns the error carrying that status, without calling
\* parse_player_data and without a second GET, and the invocation ends with
\* that error as its only message, nothing being sent before.
C3_SingleGetNoRetry ==
    \A i \in Invs :
        /\ Len(requests[i]) <= 1
        /\ (response[i].status \notin {0, HttpOk}) =>
              /\ pc[i] \in {"releasing", "closing", "done"}
              /\ Len(requests[i]) = 1
              /\ parsed[i] = << >>
              /\ outcome[i] = Returning(StatusError(i))
              /\ pc[i] # "done" => (player_data[i] = NoDict /\ sent[i] = << >>)
              /\ pc[i] = "done" =>
                    /\ player_data[i] = StatusError(i)
                    /\ sent[i] = << ErrorMessage("API returned status "
                                                  \o ToString(response[i].status)) >>

C3_Witness ==
    \E i \in Invs :
        /\ response[i].status = 404 /\ pc[i] = "done" /\ Len(requests[i]) = 1
        /\ sent[i] = << ErrorMessage("API returned status 404") >>
        /\ \E j \in Invs : j # i /\ response[j].status = 404 /\ pc[j] = "closing"

\* The counter `key` of the stats sub-object of a body that holds only stats.
StatOf(body, key) == DictGet(body.o["stats"], key, JInt(0))
IsRatioBody(body) == body.k = "obj" /\ DOMAIN body.o = {"stats"} /\ body.o["stats"].k = "obj"

\* A number equal to 0: 0, 0.0 or False.
IsZero(v) == IsNum(v) /\ v.n = 0

\* C4: a record with matches_played = 0 has win_rate = 0 and kd_ratio = 0
\* whatever wins and kills are, and a body whose matchesPlayed is 0 or absent
\* yields such a record: nothing is divided.
C4_ZeroMatchesZeroRatios ==
    \A i \in Invs : \A c \in 1..Len(parsed[i]) :
        LET out == parsed[i][c]
            body == response[i].body
        IN  /\ (~out.raised /\ IsRecord(out.value) /\ IsZero(out.value["matches_played"]))
                  => (out.value["win_rate"] = JInt(0) /\ out.value["kd_ratio"] = JInt(0))
            /\ (IsRatioBody(body) /\ IsZero(StatOf(body, "matchesPlayed")))
                  => (~out.raised /\ IsRecord(out.value)
                      /\ out.value["matches_played"] = StatOf(body, "matchesPlayed")
                      /\ out.value["wins"] = StatOf(body, "wins")
                      /\ out.value["kills"] = StatOf(body, "kills"))

C4_Witness ==
    \E i \in Invs : \E c \in 1..Len(parsed[i]) :
        /\ IsRecord(parsed[i][c].value)
        /\ parsed[i][c].value["matches_played"] = JInt(0)
        /\ parsed[i][c].value["wins"] = JStr("7")
        /\ parsed[i][c].value["kills"] = JInt(MaxStat)
        /\ parsed[i][c].value["win_rate"] = JInt(0)
        /\ parsed[i][c].value["kd_ratio"] = JInt(0)

\* h hundredths is num / den (den > 0) rounded to 2 decimals: no hundredth
\* is nearer to the quotient. The claim names no rule for a quotient halfway
\* between two hundredths, and either of them is accepted.
Nearest(h, num, den) ==
    LET diff == h * den - 100 * num
        dist == IF diff < 0 THEN 0 - diff ELSE diff
    IN  2 * dist <= den

\* C5: with matches_played > 0 and integer wins and kills, win_rate is
\* wins / matches_played * 100 and kd_ratio is kills / max(matches_played -
\* wins, 1), both rounded to 2 decimals; with wins >= matches_played the
\* divisor is 1 and kd_ratio is kills; 10/4/20 gives 40.0 and 3.33, 5/5/10
\* gives a kd_ratio of 10.0; and such a body always yields a record.
C5_RatiosRounded ==
    \A i \in Invs : \A c \in 1..Len(parsed[i]) :
        LET out == parsed[i][c]
            body == response[i].body
            mp == StatOf(body, "matchesPlayed")
            wins == StatOf(body, "wins")
            kills == StatOf(body, "kills")
        IN  (IsRatioBody(body) /\ mp.k = "int" /\ mp.n > 0 /\ wins.k = "int" /\ kills.k = "int")
              => /\ ~out.raised /\ IsRecord(out.value)
                 /\ out.value["win_rate"].k = "float"
                 /\ out.value["kd_ratio"].k = "float"
                 /\ Nearest(out.value["win_rate"].n, 100 * wins.n, mp.n)
                 /\ Nearest(out.value["kd_ratio"].n, kills.n,
                            IF mp.n - wins.n >= 1 THEN mp.n - wins.n ELSE 1)
                 /\ (wins.n >= mp.n) => out.value["kd_ratio"].n = 100 * kills.n
                 /\ (mp.n = 10 /\ wins.n = 4 /\ kills.n = 20)
                       => (out.value["win_rate"] = JFloat(4000) /\ out.value["kd_ratio"] = JFloat(333))
                 /\ (mp.n = 5 /\ wins.n = 5 /\ kills.n = 10)
                       => out.value["kd_ratio"] = JFloat(1000)

\* A quotient halfway between two hundredths: 3 kills over 40 deaths is
\* 0.075, whose double lies below it, and kd_ratio is 0.07.
C5_Witness ==
    \E i \in Invs : \E c \in 1..Len(parsed[i]) :
        /\ IsRecord(parsed[i][c].value)
        /\ parsed[i][c].value["matches_played"] = JInt(40)
        /\ parsed[i][c].value["wins"] = JInt(0)
        /\ parsed[i][c].value["kills"] = JInt(3)
        /\ parsed[i][c].value["win_rate"] = JFloat(0)
        /\ parsed[i][c].value["kd_ratio"] = JFloat(7)

\* C6: a body that is an object with status "error" yields the failure "No
\* player data found or invalid UID"; and whatever the body, the value
\* returned is a failure with no record field or a record with every field,
\* win_rate and kd_ratio included.
C6_ErrorStatusAndNoPartialRecord ==
    \A i \in Invs : \A c \in 1..Len(parsed[i]) :
        LET out == parsed[i][c]
            body == response[i].body
        IN  /\ ~out.raised
            /\ IsFailure(out.value) \/ IsRecord(out.value)
            /\ (body.k = "obj" /\ "status" \in DOMAIN body.o /\ body.o["status"] = JStr("error"))
                  => out.value = [error |-> "No player data found or invalid UID"]

C6_Witness ==
    \E i \in Invs : \E c \in 1..Len(parsed[i]) :
        /\ response[i].body.k = "obj"
        /\ DOMAIN response[i].body.o = {"status", "data"}
        /\ response[i].body.o["status"] = JStr("error")
        /\ response[i].body.o["data"] = JObj(("basicInfo" :> FullBasicInfo) @@ ("stats" :> FullStats))
        /\ parsed[i][c].value = [error |-> "No player data found or invalid UID"]

\* The payload the fields are read from: the value under data when the root
\* has a data key, else the root.
PayloadOf(body) == IF "data" \in DOMAIN body.o THEN body.o["data"] ELSE body

\* The field `key` of sub-object `sub` of a payload, or the default when the
\* sub-object or the field is absent.
FieldOr(payload, sub, key, default) ==
    IF sub \in DOMAIN payload.o /\ key \in DOMAIN payload.o[sub].o
    THEN payload.o[sub].o[key] ELSE default

\* Every field of the record is the payload's field, or its default.
FieldsFrom(rec, payload) ==
    /\ rec["name"] = FieldOr(payload, "basicInfo", "nickname", JStr("Unknown"))
    /\ rec["level"] = FieldOr(payload, "basicInfo", "level", JInt(0))
    /\ rec["exp"] = FieldOr(payload, "basicInfo", "exp", JInt(0))
    /\ rec["rank_points"] = FieldOr(payload, "basicInfo", "rankingPoints", JInt(0))
    /\ rec["likes"] = FieldOr(payload, "basicInfo", "liked", JInt(0))
    /\ rec["clan_name"] = FieldOr(payload, "clanBasicInfo", "clanName", JStr("No Clan"))
    /\ rec["clan_level"] = FieldOr(payload, "clanBasicInfo", "clanLevel", JInt(0))
    /\ rec["matches_played"] = FieldOr(payload, "stats", "matchesPlayed", JInt(0))
    /\ rec["kills"] = FieldOr(payload, "stats", "kills", JInt(0))
    /\ rec["headshots"] = FieldOr(payload, "stats", "headshots", JInt(0))
    /\ rec["damage"] = FieldOr(payload, "stats", "damage", JInt(0))
    /\ rec["wins"] = FieldOr(payload, "stats", "wins", JInt(0))
    /\ rec["top_3"] = FieldOr(payload, "stats", "top3", JInt(0))
    /\ rec["top_6"] = FieldOr(payload, "stats", "top6", JInt(0))
    /\ rec["survival_time"] = FieldOr(payload, "stats", "survivalTime", JInt(0))

\* A sparse but well-typed body: an object whose status is not "error", whose
\* payload and present sub-objects are objects, and whose present
\* matchesPlayed, wins and kills are numbers.
WellTyped(body) ==
    /\ body.k = "obj"
    /\ ~("status" \in DOMAIN body.o /\ body.o["status"] = JStr("error"))
    /\ PayloadOf(body).k = "obj"
    /\ \A sub \in {"basicInfo", "clanBasicInfo", "stats"} :
          sub \in DOMAIN PayloadOf(body).o => PayloadOf(body).o[sub].k = "obj"
    /\ \A key \in {"matchesPlayed", "wins", "kills"} :
          IsNum(FieldOr(PayloadOf(body), "stats", key, JInt(0)))

\* C7 as stated: every such object yields a record, whichever sub-objects
\* and fields are absent, each absent one taking its default.
C7_EveryObjectYieldsRecord ==
    \A i \in Invs : \A c \in 1..Len(parsed[i]) :
        WellTyped(response[i].body)
            => (IsRecord(parsed[i][c].value) /\ FieldsFrom(parsed[i][c].value, PayloadOf(response[i].body)))

\* C7 as amended: every such object that has at least one key yields a
\* record, each absent sub-object read as an empty mapping, each absent
\* number 0, an absent nickname "Unknown", an absent clanName "No Clan"; the
\* object without any key yields the failure "No player data found or
\* invalid UID".
C7_NonEmptyObjectYieldsRecord ==
    \A i \in Invs : \A c \in 1..Len(parsed[i]) :
        LET body == response[i].body
            out == parsed[i][c]
        IN  /\ (WellTyped(body) /\ DOMAIN body.o # {})
                  => (~out.raised /\ IsRecord(out.value) /\ FieldsFrom(out.value, PayloadOf(body)))
            /\ (body.k = "obj" /\ DOMAIN body.o = {})
                  => out.value = [error |-> "No player data found or invalid UID"]

C7_Witness ==
    \E i \in Invs : \E c \in 1..Len(parsed[i]) :
        /\ response[i].body = JObj("data" :> EmptyObj)
        /\ IsRecord(parsed[i][c].value)
        /\ parsed[i][c].value["name"] = JStr("Unknown")
        /\ parsed[i][c].value["clan_name"] = JStr("No Clan")
        /\ parsed[i][c].value["matches_played"] = JInt(0)
        /\ parsed[i][c].value["likes"] = JInt(0)

\* str(e) of the faults the extraction and the ratios can raise.
ParsingFaults ==
    {"'" \o t \o "' object has no attribute 'get'" :
        t \in {"NoneType", "bool", "int", "float", "str", "list"}}
      \cup {"'>' not supported between instances of '" \o t \o "' and 'int'" :
                t \in {"NoneType", "str"}}
      \cup {"unsupported operand type(s) for /: '" \o t \o "' and '" \o u \o "'" :
                t \in {"NoneType", "str"}, u \in {"bool", "int", "float"}}

\* A body on which the extraction or the ratios fault: a non-empty value that
\* is no object, or a payload or a sub-object that is none, or a
\* matchesPlayed that is no number, or wins or kills that are none while
\* matchesPlayed is above 0.
Faulty(body) ==
    /\ Truthy(body)
    /\ ~(body.k = "obj" /\ "status" \in DOMAIN body.o /\ body.o["status"] = JStr("error"))
    /\ \/ body.k # "obj"
       \/ PayloadOf(body).k # "obj"
       \/ \E sub \in {"basicInfo", "clanBasicInfo", "stats"} :
             sub \in DOMAIN PayloadOf(body).o /\ PayloadOf(body).o[sub].k # "obj"
       \/ ~IsNum(FieldOr(PayloadOf(body), "stats", "matchesPlayed", JInt(0)))
       \/ /\ PayloadOf(body).k = "obj"
          /\ Hundredths(FieldOr(PayloadOf(body), "stats", "matchesPlayed", JInt(0))) > 0
          /\ \E key \in {"wins", "kills"} : ~IsNum(FieldOr(PayloadOf(body), "stats", key, JInt(0)))

\* C8: parse_player_data raises nothing to its caller, and a fault of the
\* extraction or of the ratios comes back as the failure "Data parsing
\* error: <detail>".
C8_NoExceptionEscapes ==
    \A i \in Invs : \A c \in 1..Len(parsed[i]) :
        /\ ~parsed[i][c].raised
        /\ Faulty(response[i].body)
              => \E detail \in ParsingFaults :
                    parsed[i][c].value = [error |-> "Data parsing error: " \o detail]

C8_Witness ==
    \E i \in Invs : \E c \in 1..Len(parsed[i]) :
        /\ response[i].body = JObj("stats" :> JObj("matchesPlayed" :> JStr("7")))
        /\ ~parsed[i][c].raised
        /\ parsed[i][c].value =
              [error |-> "Data parsing error: '>' not supported between instances of 'str' and 'int'"]

\* C9: the fields of a record are those of the value under data when the
\* root has a data key, those of the root only when it has none; no field of
\* the root enters a record read from data.
C9_DataFirstElseRoot ==
    \A i \in Invs : \A c \in 1..Len(parsed[i]) :
        LET body == response[i].body
            rec == parsed[i][c].value
        IN  (~parsed[i][c].raised /\ IsRecord(rec))
              => /\ "data" \in DOMAIN body.o => FieldsFrom(rec, body.o["data"])
                 /\ "data" \notin DOMAIN body.o => FieldsFrom(rec, body)

C9_Witness ==
    \E i \in Invs : \E c \in 1..Len(parsed[i]) :
        /\ response[i].body =
              JObj(("data" :> JObj("stats" :> FullStats))
                   @@ ("basicInfo" :> JObj([nickname |-> JStr("Root"), liked |-> JInt(1)])))
        /\ IsRecord(parsed[i][c].value)
        /\ parsed[i][c].value["name"] = JStr("Unknown")
        /\ parsed[i][c].value["likes"] = JInt(0)
        /\ parsed[i][c].value["kills"] = JInt(20)

\* C10: an invocation that has ended has sent exactly one message, a failure
\* message or a rendered record.
C10_ExactlyOneTerminalMessage ==
    \A i \in Invs : Ended(i) => Len(sent[i]) = 1

====
